---- MODULE Spec2Model ----
(***************************************************************************)
(* Model of the GOLEX sync worker: app/workers/sync_worker.py driving     *)
(* app/db/supabase_client.py (relational store) and                       *)
(* app/storage/r2_client.py (object storage).                             *)
(*                                                                         *)
(* Values.  Python scalars are strings: None is the string None below, an *)
(* upstream integer n is "#n" and str(n) is "n".  A JSON object is a      *)
(* record with a field kind ("dict", or "null" for a JSON null standing   *)
(* where an object is expected).  A URL is a sequence of string segments, *)
(* so that the LIKE 'prefix%' test of the logo selection can be computed. *)
(***************************************************************************)
EXTENDS Integers, Sequences, FiniteSets, TLC

\* ------------------------------------------------------------------ bounds
\* Number of entries of the default league list that the model keeps.
NumLeagues == 2
\* Logo limit of daily_fixture_sync (50 in the source), scaled to the model.
DailyLogoLimit == 1
\* Logo limit of main (100 in the source), scaled to the model.
ManualLogoLimit == 3
\* Number of failures (upstream, store, download, upload, head_object) that a
\* behaviour of the model injects.
MaxFaults == 2
\* Longest statistics list handed to get_stat when it is called on its own.
MaxStatEntries == 2
\* Largest limit handed to get_fixtures when it is called on its own.
MaxQueryLimit == 3

\* ------------------------------------------------------------------ values
None == "<None>"
NullObj == [kind |-> "null"]
EmptyObj == [kind |-> "dict"]
NoUrl == <<>>

\* str(x) of the mapper: str(None) is the text "None", str(33) is "33".
IntText == ("#101" :> "101") @@ ("#102" :> "102") @@ ("#103" :> "103")
           @@ ("#201" :> "201") @@ ("#33" :> "33") @@ ("#34" :> "34")
           @@ ("#35" :> "35") @@ ("#39" :> "39") @@ ("#140" :> "140")
           @@ ("#202" :> "202") @@ ("#203" :> "203")

Str(v) ==
    IF v = None THEN "None"
    ELSE IF v \in DOMAIN IntText THEN IntText[v]
    ELSE v

\* dict.get(key, default)
Get(d, k, default) == IF k \in DOMAIN d THEN d[k] ELSE default

\* "not x" for an object-valued x: None and the empty dict are falsy.
Falsy(o) == o.kind = "null" \/ DOMAIN o = {"kind"}

\* ------------------------------------------------------------------ URLs
UpstreamPrefix == "https://media.api-sports.io"
PublicUrl == "R2_PUBLIC_URL"

UpstreamLogo(n) == <<UpstreamPrefix, "/football/teams/", n, ".png">>

\* logo_url LIKE 'https://media.api-sports.io%'
HasUpstreamPrefix(u) == Len(u) > 0 /\ u[1] = UpstreamPrefix

\* get_public_url without the separator.
get_public_url_NoSlash(object_key) == <<PublicUrl>> \o object_key

\* R2StorageClient.get_public_url: f"{self.public_url}/{object_key}"
get_public_url(object_key) == <<PublicUrl, "/">> \o object_key

\* object_key = f"teams/{team_id}.png"
TeamKey(team_id) == <<"teams/", team_id, ".png">>

IsOwned(u) == Len(u) > 0 /\ u[1] = PublicUrl

\* ------------------------------------------------------ upstream payloads
TeamRaw(n, nm) == [kind |-> "dict", id |-> n, name |-> nm, logo |-> UpstreamLogo(Str(n))]

T33 == TeamRaw("#33", "Manchester United")
\* Team 33 as upstream names it later.
T33b == TeamRaw("#33", "Man United")
T34 == TeamRaw("#34", "Newcastle")
T35 == TeamRaw("#35", "Bournemouth")

FixtureRaw(id, lg, date, st, hs, as, venue, ref, home, away) ==
    [kind |-> "dict",
     fixture |-> [kind |-> "dict", id |-> id, date |-> date,
                  status |-> [kind |-> "dict", short |-> st],
                  venue |-> [kind |-> "dict", name |-> venue],
                  referee |-> ref],
     league |-> [kind |-> "dict", id |-> lg],
     teams |-> [kind |-> "dict", home |-> home, away |-> away],
     goals |-> [kind |-> "dict", home |-> hs, away |-> as]]

\* Fixture 101 before kick-off, and as upstream resends it after the match was
\* moved and played.
F101a == FixtureRaw("#101", "#39", "2025-10-01", "NS", None, None, "Old Trafford", None, T33, T34)
F101b == FixtureRaw("#101", "#39", "2025-10-02", "FT", "#2", "#1", "Wembley", "M. Oliver", T33b, T34)
F102 == FixtureRaw("#102", "#39", "2025-10-04", "NS", None, None, "St James", None, T34, T35)
\* A malformed entry: "home" is present but null.
F103bad == FixtureRaw("#103", "#39", "2025-10-05", "NS", None, None, None, None, NullObj, T35)
F201 == FixtureRaw("#201", "#140", "2025-10-03", "NS", None, None, None, None, T35, T33)
\* A second fixture of the day of fixture 102, and one without a date yet.
F202 == FixtureRaw("#202", "#140", "2025-10-04", "FT", "#1", "#1", None, None, T33, T35)
F203 == FixtureRaw("#203", "#140", None, "NS", None, None, None, None, T35, T33)

\* --------------------------------------------------------- record mapper
\* SyncWorker._save_fixture, lines 89-105: the canonical fixture record, or a
\* raise (AttributeError) when .get is called on a None.
MapRaises(fd) ==
    LET fixture == Get(fd, "fixture", EmptyObj)
        league == Get(fd, "league", EmptyObj)
        teams == Get(fd, "teams", EmptyObj)
        goals == Get(fd, "goals", EmptyObj)
    IN \/ fixture.kind = "null"
       \/ league.kind = "null"
       \/ teams.kind = "null"
       \/ goals.kind = "null"
       \/ (teams.kind = "dict" /\ Get(teams, "home", EmptyObj).kind = "null")
       \/ (teams.kind = "dict" /\ Get(teams, "away", EmptyObj).kind = "null")
       \/ (fixture.kind = "dict" /\ Get(fixture, "status", EmptyObj).kind = "null")
       \/ (fixture.kind = "dict" /\ Get(fixture, "venue", EmptyObj).kind = "null")

fixture_obj(fd) ==
    LET fixture == Get(fd, "fixture", EmptyObj)
        league == Get(fd, "league", EmptyObj)
        teams == Get(fd, "teams", EmptyObj)
        goals == Get(fd, "goals", EmptyObj)
    IN [id |-> Str(Get(fixture, "id", None)),
        league_id |-> Str(Get(league, "id", None)),
        home_team_id |-> Str(Get(Get(teams, "home", EmptyObj), "id", None)),
        away_team_id |-> Str(Get(Get(teams, "away", EmptyObj), "id", None)),
        match_date |-> Get(fixture, "date", None),
        status |-> Get(Get(fixture, "status", EmptyObj), "short", "NS"),
        home_score |-> Get(goals, "home", None),
        away_score |-> Get(goals, "away", None),
        venue |-> Get(Get(fixture, "venue", EmptyObj), "name", None),
        referee_id |-> Get(fixture, "referee", None)]

\* SyncWorker._save_team, lines 118-126.
team_obj(team_data) ==
    [id |-> Str(Get(team_data, "id", None)),
     name |-> Get(team_data, "name", None),
     logo_url |-> Get(team_data, "logo", NoUrl),
     country |-> Get(team_data, "country", None),
     league_id |-> None,
     founded |-> None,
     venue |-> None]

\* _save_fixture lines 110-111 with _save_team lines 115-116: the team records
\* upserted for an entry, a missing or empty team being skipped.
TeamsOf(fd) ==
    LET home == Get(Get(fd, "teams", EmptyObj), "home", NullObj)
        away == Get(Get(fd, "teams", EmptyObj), "away", NullObj)
    IN (IF Falsy(home) THEN <<>> ELSE <<team_obj(home)>>)
       \o (IF Falsy(away) THEN <<>> ELSE <<team_obj(away)>>)

\* -------------------------------------------------------- stat extractor
\* A statistic value: null, an integer, or a string given by its characters.
SNull == [t |-> "null", i |-> 0, s |-> <<>>]
SInt(n) == [t |-> "int", i |-> n, s |-> <<>>]
SStr(chars) == [t |-> "str", i |-> 0, s |-> chars]
\* A float, given in hundredths.
SFloat(hundredths) == [t |-> "float", i |-> hundredths, s |-> <<>>]

Digits == <<"0", "1", "2", "3", "4", "5", "6", "7", "8", "9">>
IsDigit(c) == \E d \in DOMAIN Digits : Digits[d] = c
DigitValue(c) == (CHOOSE d \in DOMAIN Digits : Digits[d] = c) - 1

RECURSIVE DigitsValue(_)
DigitsValue(cs) ==
    IF cs = <<>> THEN 0
    ELSE 10 * DigitsValue(SubSeq(cs, 1, Len(cs) - 1)) + DigitValue(cs[Len(cs)])

\* value.replace('%', '')
StripPercent(cs) == SelectSeq(cs, LAMBDA c : c # "%")

\* int(text): an optional sign and at least one digit, else ValueError.
IntParses(cs) ==
    LET body == IF cs # <<>> /\ cs[1] \in {"-", "+"} THEN Tail(cs) ELSE cs
    IN body # <<>> /\ \A k \in DOMAIN body : IsDigit(body[k])

IntOf(cs) ==
    IF cs[1] = "-" THEN 0 - DigitsValue(Tail(cs))
    ELSE IF cs[1] = "+" THEN DigitsValue(Tail(cs))
    ELSE DigitsValue(cs)

\* The value conversion of get_stat, lines 212-216.
HasPercent(value) == value.t = "str" /\ \E k \in DOMAIN value.s : value.s[k] = "%"

ConvertRaises(value) == HasPercent(value) /\ ~IntParses(StripPercent(value.s))

Convert(value) ==
    IF HasPercent(value) THEN SInt(IntOf(StripPercent(value.s))) ELSE value

\* get_stat, lines 209-217: the first entry of the requested type decides.
Matches(stats_list, stat_type) ==
    {k \in DOMAIN stats_list : stats_list[k].type = stat_type}

FirstMatch(stats_list, stat_type) ==
    CHOOSE k \in Matches(stats_list, stat_type) :
        \A j \in Matches(stats_list, stat_type) : k <= j

get_stat_raises(stats_list, stat_type) ==
    /\ Matches(stats_list, stat_type) # {}
    /\ ConvertRaises(stats_list[FirstMatch(stats_list, stat_type)].value)

get_stat(stats_list, stat_type) ==
    IF Matches(stats_list, stat_type) = {} THEN SNull
    ELSE Convert(stats_list[FirstMatch(stats_list, stat_type)].value)

\* _parse_fixture_stats, lines 206-232.
HomeStats(stats_data) ==
    IF Len(stats_data) > 0 THEN Get(stats_data[1], "statistics", <<>>) ELSE <<>>

AwayStats(stats_data) ==
    IF Len(stats_data) > 1 THEN Get(stats_data[2], "statistics", <<>>) ELSE <<>>

StatTypes == {"Ball Possession", "Total Shots", "Shots on Goal", "Corner Kicks", "Fouls"}

parse_raises(stats_data) ==
    \E ty \in StatTypes :
        \/ get_stat_raises(HomeStats(stats_data), ty)
        \/ get_stat_raises(AwayStats(stats_data), ty)

_parse_fixture_stats(stats_data) ==
    LET home_stats == HomeStats(stats_data)
        away_stats == AwayStats(stats_data)
    IN [home_xg |-> SNull,
        away_xg |-> SNull,
        home_possession |-> get_stat(home_stats, "Ball Possession"),
        away_possession |-> get_stat(away_stats, "Ball Possession"),
        home_shots |-> get_stat(home_stats, "Total Shots"),
        away_shots |-> get_stat(away_stats, "Total Shots"),
        home_shots_on_target |-> get_stat(home_stats, "Shots on Goal"),
        away_shots_on_target |-> get_stat(away_stats, "Shots on Goal"),
        home_corners |-> get_stat(home_stats, "Corner Kicks"),
        away_corners |-> get_stat(away_stats, "Corner Kicks"),
        home_fouls |-> get_stat(home_stats, "Fouls"),
        away_fouls |-> get_stat(away_stats, "Fouls")]

\* ------------------------------------------------------------ the store
\* A table is the set of its rows; updated_at / created_at are left out.

\* upsert_fixture with the score columns of the update crossed.
upsert_fixture_CrossedScores(tbl, P) ==
    IF \E row \in tbl : row.id = P.id
    THEN {IF row.id = P.id
          THEN [row EXCEPT !.status = P.status,
                           !.home_score = P.away_score,
                           !.away_score = P.home_score]
          ELSE row : row \in tbl}
    ELSE tbl \cup {P}

\* SupabaseClient.upsert_fixture: INSERT ... ON CONFLICT (id) DO UPDATE SET
\* status, home_score, away_score.
upsert_fixture(tbl, P) ==
    IF \E row \in tbl : row.id = P.id
    THEN {IF row.id = P.id
          THEN [row EXCEPT !.status = P.status,
                           !.home_score = P.home_score,
                           !.away_score = P.away_score]
          ELSE row : row \in tbl}
    ELSE tbl \cup {P}

\* upsert_team with an update clause that loses the logo.
upsert_team_DropsLogoOnConflict(tbl, P) ==
    IF \E row \in tbl : row.id = P.id
    THEN {IF row.id = P.id
          THEN [row EXCEPT !.name = P.name, !.logo_url = NoUrl, !.venue = P.venue]
          ELSE row : row \in tbl}
    ELSE tbl \cup {P}

\* upsert_team that replaces the whole row on conflict.
upsert_team_FullReplace(tbl, P) == {row \in tbl : row.id # P.id} \cup {P}

\* SupabaseClient.upsert_team: INSERT ... ON CONFLICT (id) DO UPDATE SET
\* name, logo_url, venue.
upsert_team(tbl, P) ==
    IF \E row \in tbl : row.id = P.id
    THEN {IF row.id = P.id
          THEN [row EXCEPT !.name = P.name,
                           !.logo_url = P.logo_url,
                           !.venue = P.venue]
          ELSE row : row \in tbl}
    ELSE tbl \cup {P}

\* The UPDATE without its WHERE clause.
update_logo_NoWhere(tbl, url, id) == {[row EXCEPT !.logo_url = url] : row \in tbl}

\* The UPDATE widened to the name column.
update_logo_ClearsName(tbl, url, id) ==
    {IF row.id = id THEN [row EXCEPT !.logo_url = url, !.name = None] ELSE row : row \in tbl}

\* UPDATE teams SET logo_url = $1 WHERE id = $2
update_logo(tbl, url, id) ==
    {IF row.id = id THEN [row EXCEPT !.logo_url = url] ELSE row : row \in tbl}


\* SupabaseClient.upsert_fixture_stats: INSERT ... ON CONFLICT (fixture_id) DO
\* UPDATE SET home_xg, away_xg, home_possession, away_possession, home_shots,
\* away_shots.
StatsRow(fixture_id, stats) ==
    [fixture_id |-> fixture_id,
     home_xg |-> stats.home_xg, away_xg |-> stats.away_xg,
     home_possession |-> stats.home_possession,
     away_possession |-> stats.away_possession,
     home_shots |-> stats.home_shots, away_shots |-> stats.away_shots,
     home_shots_on_target |-> stats.home_shots_on_target,
     away_shots_on_target |-> stats.away_shots_on_target,
     home_corners |-> stats.home_corners, away_corners |-> stats.away_corners,
     home_fouls |-> stats.home_fouls, away_fouls |-> stats.away_fouls]

upsert_fixture_stats(tbl, fixture_id, stats) ==
    IF \E row \in tbl : row.fixture_id = fixture_id
    THEN {IF row.fixture_id = fixture_id
          THEN [row EXCEPT !.home_xg = stats.home_xg,
                           !.away_xg = stats.away_xg,
                           !.home_possession = stats.home_possession,
                           !.away_possession = stats.away_possession,
                           !.home_shots = stats.home_shots,
                           !.away_shots = stats.away_shots]
          ELSE row : row \in tbl}
    ELSE tbl \cup {StatsRow(fixture_id, stats)}

\* SELECT * FROM <table> WHERE id = $1 (get_fixture, get_team): the row of a
\* primary key.
HasStored(tbl, id) == \E row \in tbl : row.id = id
StoredRow(tbl, id) == CHOOSE row \in tbl : row.id = id

Min(a, b) == IF a < b THEN a ELSE b

IsInjective(s) == \A i, j \in DOMAIN s : s[i] = s[j] => i = j

\* SupabaseClient.get_fixtures, lines 72-111.  match_date is compared as a
\* point in time; a comparison with a NULL match_date is not true, and ORDER BY
\* match_date ASC puts NULL last.
Dates == <<"2025-10-01", "2025-10-02", "2025-10-03", "2025-10-04", "2025-10-05">>
DateOrd(d) == CHOOSE i \in DOMAIN Dates : Dates[i] = d

\* "if date_from:" and the like: None and the empty string add no condition.
Truthy(x) == x # None /\ x # ""

\* The WHERE clause with the status condition left out.
Satisfies_IgnoresStatus(row, date_from, date_to, league_id, status) ==
    /\ Truthy(date_from) =>
          row.match_date # None /\ DateOrd(row.match_date) >= DateOrd(date_from)
    /\ Truthy(date_to) =>
          row.match_date # None /\ DateOrd(row.match_date) <= DateOrd(date_to)
    /\ Truthy(league_id) => row.league_id = league_id

\* WHERE 1=1 [AND match_date >= $n] [AND match_date <= $n] [AND league_id = $n]
\* [AND status = $n]
Satisfies(row, date_from, date_to, league_id, status) ==
    /\ Truthy(date_from) =>
          row.match_date # None /\ DateOrd(row.match_date) >= DateOrd(date_from)
    /\ Truthy(date_to) =>
          row.match_date # None /\ DateOrd(row.match_date) <= DateOrd(date_to)
    /\ Truthy(league_id) => row.league_id = league_id
    /\ Truthy(status) => row.status = status

\* ORDER BY match_date ASC: row a may stand before row b.
MayPrecede(a, b) ==
    \/ b.match_date = None
    \/ a.match_date # None /\ DateOrd(a.match_date) <= DateOrd(b.match_date)

\* The possible results: the selected rows in an order that ORDER BY allows,
\* cut by LIMIT.
get_fixtures(tbl, date_from, date_to, league_id, status, limit) ==
    LET selected == {row \in tbl : Satisfies(row, date_from, date_to, league_id, status)}
        n == Cardinality(selected)
        ordered == {s \in [1..n -> selected] :
                       /\ IsInjective(s)
                       /\ \A i, j \in 1..n : i < j => MayPrecede(s[i], s[j])}
    IN {SubSeq(s, 1, Min(limit, n)) : s \in ordered}

\* SELECT id, name, logo_url FROM teams WHERE logo_url LIKE '...%' LIMIT $1:
\* the possible results.  No ORDER BY: any rows, in any order.
Projection(row) == [id |-> row.id, name |-> row.name, logo_url |-> row.logo_url]

\* The selection without its LIMIT clause.
select_upstream_NoLimit(tbl, limit) ==
    LET eligible == {Projection(row) : row \in {x \in tbl : HasUpstreamPrefix(x.logo_url)}}
    IN {s \in [1..Cardinality(eligible) -> eligible] : IsInjective(s)}

select_upstream(tbl, limit) ==
    LET eligible == {Projection(row) : row \in {x \in tbl : HasUpstreamPrefix(x.logo_url)}}
        n == Min(limit, Cardinality(eligible))
    IN {s \in [1..n -> eligible] : IsInjective(s)}

\* ------------------------------------------------------------- upstream
\* leagues = ["39", "140", "78", "135", "61"], cut to NumLeagues entries.
AllLeagues == <<"39", "140", "78", "135", "61">>
DefaultLeagues == SubSeq(AllLeagues, 1, Min(NumLeagues, Len(AllLeagues)))

\* data.get("response", []) of GET /fixtures for a league: what upstream may
\* answer.  Two upstream data sets: the one used when the triggers run one
\* after the other, and a smaller one used when they overlap.
SeqUpstream ==
    [league_id \in {AllLeagues[i] : i \in DOMAIN AllLeagues} |->
        CASE league_id = "39" -> {<<F101a, F102>>, <<F101b, F103bad, F102>>}
          [] league_id = "140" -> {<<F201>>, <<>>}
          [] OTHER -> {<<>>}]

OverlapUpstream ==
    [league_id \in {AllLeagues[i] : i \in DOMAIN AllLeagues} |->
        CASE league_id = "39" -> {<<F101a>>, <<F101b>>}
          [] OTHER -> {<<>>}]

\* data.get("response", []) of GET /fixtures/statistics: what upstream may
\* answer.
Stat(ty, value) == [type |-> ty, value |-> value]

TeamStats(poss, shots, on_goal, corners, fouls) ==
    [kind |-> "dict",
     statistics |-> <<Stat("Shots on Goal", on_goal), Stat("Total Shots", shots),
                      Stat("Fouls", fouls), Stat("Corner Kicks", corners),
                      Stat("Ball Possession", poss)>>]

StatsHalfTime ==
    <<TeamStats(SStr(<<"6", "3", "%">>), SInt(7), SInt(3), SInt(2), SInt(5)),
      TeamStats(SStr(<<"3", "7", "%">>), SInt(4), SInt(1), SNull, SInt(6))>>

StatsFullTime ==
    <<TeamStats(SStr(<<"5", "8", "%">>), SInt(15), SInt(6), SInt(7), SInt(11)),
      TeamStats(SStr(<<"4", "2", "%">>), SInt(9), SInt(4), SInt(3), SInt(12))>>

StatsResponses == {<<>>, StatsHalfTime, StatsFullTime}

\* The fixture ids a caller of sync_fixture_stats passes.
StatsIds == <<"101", "102">>

\* ------------------------------------------------------------ the state
Runs == {1, 2}
Kinds == {"daily", "live", "main", "stats"}
Finished == {"done", "raised"}

VARIABLES
    fixtures,      \* table fixtures
    teams,         \* table teams
    fixture_stats, \* table fixture_stats
    objects,       \* object keys present in the bucket
    pool,          \* supabase_client.pool: 0 is None, else an index of pools
    pools,         \* every pool created so far: "open" or "closed"
    overlap,       \* whether triggers may run while another one is in flight
    upstream,      \* what GET /fixtures may answer, per league
    pc,            \* position of each run
    kind,          \* the trigger each run executes
    loc,           \* local variables of each run
    faults,        \* failures injected so far
    uploads,       \* history: completed put_object calls per object key
    last_applied,  \* history: the record last upserted, per fixture id
    hist,          \* history of each run
    call           \* a function of the module called on its own: its
                   \* arguments and, once it was evaluated, its outcome

vars == <<fixtures, teams, fixture_stats, objects, pool, pools, overlap, upstream,
          pc, kind, loc, faults, uploads, last_applied, hist, call>>

\* No function is called on its own while the triggers run.
NoCall == [fn |-> "none"]

NoLoc ==
    [leagues |-> <<>>, li |-> 0, resp |-> <<>>, fi |-> 0, total_synced |-> 0,
     limit |-> 0, sel |-> <<>>, ti |-> 0, uploaded |-> 0, r2_url |-> NoUrl,
     fixture_ids |-> <<>>, si |-> 0, synced |-> 0, stats |-> <<>>,
     raising |-> FALSE]

NoHist ==
    [attempts |-> <<>>,      \* items of the batch tried so far, in order
     batch |-> <<>>,         \* the batch of the operation in progress
     fetched |-> <<>>,       \* fixture entries received by sync_fixtures,
                             \* kept until the trigger's operations returned
     upserted |-> 0,         \* upsert_fixture calls that succeeded
     saved |-> 0,            \* _save_fixture calls that returned
     before |-> <<>>,        \* table fixtures before the upsert just made
     reapplied |-> FALSE,    \* that upsert repeated the last one of its id
     asset_failed |-> {},    \* teams whose download or upload raised
     written |-> {},         \* teams whose UPDATE of logo_url succeeded
     changed |-> {},         \* those of them whose logo_url was not an owned
                             \* URL before the UPDATE and is one after it
     orphans |-> {},         \* teams that had an upstream logo_url and their
                             \* object in the bucket when a repeated call of
                             \* sync_team_logos began
     synced_ids |-> {},      \* fixture ids whose statistics upsert succeeded
     unsaved |-> {},         \* fixture rows written by a _save_fixture call
                             \* that a team upsert then aborted
     mypool |-> 0,           \* the pool this run's connect created
     err |-> "none"]         \* where an exception left the operation

InitRuns ==
    /\ fixture_stats = {}
    /\ objects = {}
    /\ pool = 0
    /\ pools = <<>>
    /\ pc = [r \in Runs |-> "idle"]
    /\ kind = [r \in Runs |-> "none"]
    /\ loc = [r \in Runs |-> NoLoc]
    /\ faults = 0
    /\ uploads = [k \in {} |-> 0]
    /\ last_applied = [k \in {} |-> 0]
    /\ hist = [r \in Runs |-> NoHist]

InitStore == fixtures = {} /\ teams = {} /\ InitRuns

Init == InitStore /\ overlap = TRUE /\ upstream = OverlapUpstream /\ call = NoCall

SeqInit == InitStore /\ overlap = FALSE /\ upstream = SeqUpstream /\ call = NoCall

\* self.pool.acquire() works: the attribute is a pool and it is not closed.
StoreUp == pool # 0 /\ pools[pool] = "open"

Uploads(key) == IF key \in DOMAIN uploads THEN uploads[key] ELSE 0

\* An await on the network ends in an exception: an injected failure.
Fails == faults < MaxFaults /\ faults' = faults + 1

\* A store call ends in an exception: the pool is unusable, or an injected
\* failure.
StoreFails == IF StoreUp THEN Fails ELSE faults' = faults

NoFault == faults' = faults

LastApplied(P) == P.id \in DOMAIN last_applied /\ last_applied[P.id] = P

\* The id loop of sync_fixture_stats moves on (normally or through the except
\* clause of line 197): the next id, or the return of line 202.
NextStat(r, l) ==
    IF l.si + 1 > Len(l.fixture_ids)
    THEN /\ pc' = [pc EXCEPT ![r] = "st_return"]
         /\ loc' = [loc EXCEPT ![r] = [l EXCEPT !.si = 0, !.fixture_ids = <<>>,
                                                !.stats = <<>>]]
    ELSE /\ pc' = [pc EXCEPT ![r] = "st_fetch"]
         /\ loc' = [loc EXCEPT ![r] = [l EXCEPT !.si = l.si + 1, !.stats = <<>>]]

\* ------------------------------------------------------------- triggers
\* A trigger starts.  Runs are interchangeable, so they start in index order;
\* without overlap a trigger starts only when the earlier ones have ended.
Start(r) ==
    /\ pc[r] = "idle"
    /\ \A q \in Runs : q < r =>
          IF overlap THEN pc[q] # "idle" ELSE pc[q] \in Finished
    /\ \E k \in Kinds :
          /\ kind' = [kind EXCEPT ![r] = k]
          /\ IF k = "stats"
             THEN /\ hist' = [hist EXCEPT ![r].batch = StatsIds, ![r].attempts = <<>>]
                  /\ NextStat(r, [loc[r] EXCEPT !.fixture_ids = StatsIds, !.si = 0,
                                                !.synced = 0])
             ELSE /\ pc' = [pc EXCEPT ![r] = "connect"]
                  /\ UNCHANGED <<loc, hist>>
    /\ UNCHANGED <<fixtures, teams, fixture_stats, objects, pool, pools, overlap,
                   upstream, faults, uploads, last_applied>>
    /\ UNCHANGED call

\* The league loop of sync_fixtures moves on (normally or through the except
\* clause of line 80): the next league, or the return of line 85.
NextLeague(r, l) ==
    IF l.li + 1 > Len(l.leagues)
    THEN /\ pc' = [pc EXCEPT ![r] = "fx_return"]
         /\ loc' = [loc EXCEPT ![r] = [l EXCEPT !.li = 0, !.leagues = <<>>,
                                                !.resp = <<>>, !.fi = 0]]
    ELSE /\ pc' = [pc EXCEPT ![r] = "fx_fetch"]
         /\ loc' = [loc EXCEPT ![r] = [l EXCEPT !.li = l.li + 1, !.resp = <<>>, !.fi = 0]]

\* except Exception of lines 80-82: log the league, continue.
LeagueFailed_Breaks(r, l) ==
    /\ pc' = [pc EXCEPT ![r] = "fx_return"]
    /\ loc' = [loc EXCEPT ![r] = [l EXCEPT !.li = 0, !.leagues = <<>>,
                                           !.resp = <<>>, !.fi = 0]]

LeagueFailed(r, l) == NextLeague(r, l)

\* A trigger that catches the exception of connect and goes on.
Connect_SwallowsFailure(r) ==
    /\ pc[r] = "connect"
    /\ \/ /\ Fails
          /\ hist' = [hist EXCEPT ![r].err = "connect", ![r].batch = DefaultLeagues,
                                  ![r].attempts = <<>>]
          /\ NextLeague(r, [loc[r] EXCEPT !.leagues = DefaultLeagues, !.li = 0,
                                          !.total_synced = 0])
          /\ UNCHANGED <<pool, pools>>
       \/ /\ NoFault
          /\ pools' = Append(pools, "open")
          /\ pool' = Len(pools) + 1
          /\ hist' = [hist EXCEPT ![r].mypool = Len(pools) + 1,
                                  ![r].batch = DefaultLeagues,
                                  ![r].attempts = <<>>]
          /\ NextLeague(r, [loc[r] EXCEPT !.leagues = DefaultLeagues, !.li = 0,
                                          !.total_synced = 0])
    /\ UNCHANGED <<fixtures, teams, fixture_stats, objects, overlap, upstream, kind, uploads, last_applied>>
    /\ UNCHANGED call

\* SupabaseClient.connect, then the trigger enters sync_fixtures up to its
\* first await.
Connect(r) ==
    /\ pc[r] = "connect"
    /\ \/ /\ Fails
          /\ pc' = [pc EXCEPT ![r] = "raised"]
          /\ hist' = [hist EXCEPT ![r].err = "connect"]
          /\ UNCHANGED <<pool, pools, loc>>
       \/ /\ NoFault
          /\ pools' = Append(pools, "open")
          /\ pool' = Len(pools) + 1
          /\ hist' = [hist EXCEPT ![r].mypool = Len(pools) + 1,
                                  ![r].batch = DefaultLeagues,
                                  ![r].attempts = <<>>]
          /\ NextLeague(r, [loc[r] EXCEPT !.leagues = DefaultLeagues, !.li = 0,
                                          !.total_synced = 0])
    /\ UNCHANGED <<fixtures, teams, fixture_stats, objects, overlap, upstream, kind, uploads, last_applied>>
    /\ UNCHANGED call

\* sync_fixtures lines 59-73: fetch one league.
FetchLeague(r) ==
    /\ pc[r] = "fx_fetch"
    /\ LET l == loc[r]
           league_id == l.leagues[l.li]
       IN \/ /\ Fails
             /\ hist' = [hist EXCEPT ![r].attempts = Append(@, league_id)]
             /\ LeagueFailed(r, l)
          \/ /\ NoFault
             /\ \E resp \in upstream[league_id] :
                   /\ hist' = [hist EXCEPT ![r].attempts = Append(@, league_id),
                                           ![r].fetched = @ \o resp]
                   /\ IF resp = <<>>
                      THEN NextLeague(r, l)
                      ELSE /\ pc' = [pc EXCEPT ![r] = "fx_upsert"]
                           /\ loc' = [loc EXCEPT ![r] = [l EXCEPT !.resp = resp, !.fi = 1]]
    /\ UNCHANGED <<fixtures, teams, fixture_stats, objects, pool, pools, overlap, upstream, kind, uploads, last_applied>>
    /\ UNCHANGED call

\* _save_fixture lines 89-107: map the entry and upsert the fixture.
UpsertFixtureStep(r) ==
    /\ pc[r] = "fx_upsert"
    /\ LET l == loc[r]
           fd == l.resp[l.fi]
       IN IF MapRaises(fd)
          THEN /\ LeagueFailed(r, l)
               /\ UNCHANGED <<fixtures, hist, faults, last_applied>>
          ELSE \/ /\ StoreFails
                  /\ LeagueFailed(r, l)
                  /\ UNCHANGED <<fixtures, hist, last_applied>>
               \/ /\ StoreUp /\ NoFault
                  /\ fixtures' = upsert_fixture(fixtures, fixture_obj(fd))
                  /\ hist' = [hist EXCEPT ![r].upserted = @ + 1,
                                          ![r].before = <<fixtures>>,
                                          ![r].reapplied = LastApplied(fixture_obj(fd))]
                  /\ last_applied' = (fixture_obj(fd).id :> fixture_obj(fd)) @@ last_applied
                  /\ pc' = [pc EXCEPT ![r] = "fx_home"]
                  /\ UNCHANGED loc
    /\ UNCHANGED <<teams, fixture_stats, objects, pool, pools, overlap, upstream, kind, uploads>>
    /\ UNCHANGED call

\* Line 78 written as "total_synced =+ 1".
CountSynced_Assigns(total_synced) == 1

\* total_synced += 1, line 78.
CountSynced(total_synced) == total_synced + 1

\* After _save_fixture returned: line 78, and the loop of line 76 goes on.
FixtureSaved(r, l) ==
    /\ hist' = [hist EXCEPT ![r].saved = @ + 1]
    /\ LET l2 == [l EXCEPT !.total_synced = CountSynced(l.total_synced)]
       IN IF l.fi + 1 > Len(l.resp)
          THEN NextLeague(r, l2)
          ELSE /\ pc' = [pc EXCEPT ![r] = "fx_upsert"]
               /\ loc' = [loc EXCEPT ![r] = [l2 EXCEPT !.fi = l.fi + 1]]

\* An except clause that takes back the row written for the fixture.
AfterAbortedSave_RollsBack(tbl, fixture_id) == {row \in tbl : row.id # fixture_id}

\* What the store holds after a team upsert aborted _save_fixture: each
\* upsert is a statement of its own (no transaction spans lines 107-111) and
\* the except clause of lines 80-82 only logs, so the fixture row stays.
AfterAbortedSave(tbl, fixture_id) == tbl

\* The history of a _save_fixture call aborted by a team upsert.
Aborted(r, fd) ==
    IF HasStored(fixtures, fixture_obj(fd).id)
    THEN [hist EXCEPT ![r].before = <<>>, ![r].reapplied = FALSE,
                      ![r].unsaved = @ \cup {StoredRow(fixtures, fixture_obj(fd).id)}]
    ELSE [hist EXCEPT ![r].before = <<>>, ![r].reapplied = FALSE]

\* _save_team(teams.get("home")), line 110.
SaveHomeTeam(r) ==
    /\ pc[r] = "fx_home"
    /\ LET l == loc[r]
           team_data == Get(Get(l.resp[l.fi], "teams", EmptyObj), "home", NullObj)
       IN IF Falsy(team_data)
          THEN /\ pc' = [pc EXCEPT ![r] = "fx_away"]
               /\ hist' = [hist EXCEPT ![r].before = <<>>, ![r].reapplied = FALSE]
               /\ UNCHANGED <<fixtures, teams, loc, faults>>
          ELSE \/ /\ StoreFails
                  /\ LeagueFailed(r, l)
                  /\ hist' = Aborted(r, l.resp[l.fi])
                  /\ fixtures' = AfterAbortedSave(fixtures, fixture_obj(l.resp[l.fi]).id)
                  /\ UNCHANGED teams
               \/ /\ StoreUp /\ NoFault
                  /\ teams' = upsert_team(teams, team_obj(team_data))
                  /\ pc' = [pc EXCEPT ![r] = "fx_away"]
                  /\ hist' = [hist EXCEPT ![r].before = <<>>, ![r].reapplied = FALSE]
                  /\ UNCHANGED <<fixtures, loc>>
    /\ UNCHANGED <<fixture_stats, objects, pool, pools, overlap, upstream,
                   kind, uploads, last_applied>>
    /\ UNCHANGED call

\* _save_team(teams.get("away")), line 111, and the return to line 78.
SaveAwayTeam(r) ==
    /\ pc[r] = "fx_away"
    /\ LET l == loc[r]
           team_data == Get(Get(l.resp[l.fi], "teams", EmptyObj), "away", NullObj)
       IN IF Falsy(team_data)
          THEN /\ FixtureSaved(r, l)
               /\ UNCHANGED <<fixtures, teams, faults>>
          ELSE \/ /\ StoreFails
                  /\ LeagueFailed(r, l)
                  /\ hist' = Aborted(r, l.resp[l.fi])
                  /\ fixtures' = AfterAbortedSave(fixtures, fixture_obj(l.resp[l.fi]).id)
                  /\ UNCHANGED teams
               \/ /\ StoreUp /\ NoFault
                  /\ teams' = upsert_team(teams, team_obj(team_data))
                  /\ FixtureSaved(r, l)
                  /\ UNCHANGED fixtures
    /\ UNCHANGED <<fixture_stats, objects, pool, pools, overlap, upstream, kind, uploads, last_applied>>
    /\ UNCHANGED call

\* sync_fixtures returned total_synced; the trigger goes on: sync_team_logos
\* (daily, main) or the finally clause (live).
ReturnFixtures(r) ==
    /\ pc[r] = "fx_return"
    /\ hist' = [hist EXCEPT ![r].attempts = <<>>, ![r].batch = <<>>,
                            ![r].fetched = IF kind[r] = "live" THEN <<>> ELSE @,
                            ![r].upserted = 0, ![r].saved = 0,
                            ![r].unsaved = {}]
    /\ IF kind[r] = "live"
       THEN /\ pc' = [pc EXCEPT ![r] = "disconnect"]
            /\ loc' = [loc EXCEPT ![r] = NoLoc]
       ELSE /\ pc' = [pc EXCEPT ![r] = "lg_select"]
            /\ loc' = [loc EXCEPT ![r] =
                 [NoLoc EXCEPT !.limit = IF kind[r] = "daily" THEN DailyLogoLimit
                                                               ELSE ManualLogoLimit]]
    /\ UNCHANGED <<fixtures, teams, fixture_stats, objects, pool, pools, overlap, upstream, kind, faults, uploads, last_applied>>
    /\ UNCHANGED call


\* The team loop of sync_team_logos moves on (normally or through the except
\* clause of line 167): the next team, or the return of line 172.
NextTeam(r, l) ==
    IF l.ti + 1 > Len(l.sel)
    THEN /\ pc' = [pc EXCEPT ![r] = "lg_return"]
         /\ loc' = [loc EXCEPT ![r] = [l EXCEPT !.ti = 0, !.r2_url = NoUrl]]
    ELSE /\ pc' = [pc EXCEPT ![r] = "lg_exists"]
         /\ loc' = [loc EXCEPT ![r] = [l EXCEPT !.ti = l.ti + 1, !.r2_url = NoUrl]]

\* except Exception of lines 167-169: log the team, continue.
TeamFailed(r, l) == NextTeam(r, l)

\* sync_team_logos lines 143-151: the selection.  It stands outside every try
\* block, so a store error leaves sync_team_logos as an exception.
SelectTeams(r) ==
    /\ pc[r] = "lg_select"
    /\ \/ /\ StoreFails
          /\ pc' = [pc EXCEPT ![r] = "disconnect"]
          /\ loc' = [loc EXCEPT ![r] = [NoLoc EXCEPT !.raising = TRUE]]
          /\ hist' = [hist EXCEPT ![r].err = "select", ![r].batch = <<>>,
                                  ![r].attempts = <<>>, ![r].fetched = <<>>]
       \/ /\ StoreUp /\ NoFault
          /\ \E sel \in select_upstream(teams, loc[r].limit) :
                /\ hist' = [hist EXCEPT ![r].batch = [i \in DOMAIN sel |-> sel[i].id],
                                        ![r].attempts = <<>>]
                /\ NextTeam(r, [loc[r] EXCEPT !.sel = sel, !.ti = 0, !.uploaded = 0])
    /\ UNCHANGED <<fixtures, teams, fixture_stats, objects, pool, pools, overlap, upstream, kind, uploads, last_applied>>
    /\ UNCHANGED call

\* A file_exists that answers True for an object the bucket does not hold.
HeadOutcomes_AlwaysFound(key) == {"found", "other_error"}

\* R2StorageClient.file_exists as called by upload_team_logo (line 172):
\* head_object answers, or raises ClientError (404, but also any other error
\* response), which file_exists turns into False; any other exception
\* propagates to the except clause of sync_team_logos.
HeadOutcomes(key) ==
    IF key \in objects THEN {"found", "client_error", "other_error"}
    ELSE {"not_found", "other_error"}

FileExists(r) ==
    /\ pc[r] = "lg_exists"
    /\ LET l == loc[r]
           team_id == l.sel[l.ti].id
           object_key == TeamKey(team_id)
       IN /\ hist' = [hist EXCEPT ![r].attempts = Append(@, team_id)]
          /\ \E o \in HeadOutcomes(object_key) :
                CASE o = "found" ->
                       /\ NoFault
                       /\ pc' = [pc EXCEPT ![r] = "lg_update"]
                       /\ loc' = [loc EXCEPT ![r].r2_url = get_public_url(object_key)]
                  [] o = "not_found" ->
                       /\ NoFault
                       /\ pc' = [pc EXCEPT ![r] = "lg_download"]
                       /\ UNCHANGED loc
                  [] o = "client_error" ->
                       /\ Fails
                       /\ pc' = [pc EXCEPT ![r] = "lg_download"]
                       /\ UNCHANGED loc
                  [] OTHER ->
                       /\ Fails
                       /\ TeamFailed(r, l)
    /\ UNCHANGED <<fixtures, teams, fixture_stats, objects, pool, pools, overlap, upstream, kind, uploads, last_applied>>
    /\ UNCHANGED call

\* R2StorageClient.upload_from_url lines 103-108: the download.
Download(r) ==
    /\ pc[r] = "lg_download"
    /\ \/ /\ Fails
          /\ hist' = [hist EXCEPT ![r].asset_failed = @ \cup {loc[r].sel[loc[r].ti].id}]
          /\ TeamFailed(r, loc[r])
       \/ /\ NoFault
          /\ pc' = [pc EXCEPT ![r] = "lg_upload"]
          /\ UNCHANGED <<loc, hist>>
    /\ UNCHANGED <<fixtures, teams, fixture_stats, objects, pool, pools, overlap,
                   upstream, kind, uploads, last_applied>>
    /\ UNCHANGED call

\* Upload with an except clause that returns the URL instead of raising.
Upload_ReturnsUrlOnError(r) ==
    /\ pc[r] = "lg_upload"
    /\ LET l == loc[r]
           object_key == TeamKey(l.sel[l.ti].id)
       IN /\ \/ /\ Fails
                /\ hist' = [hist EXCEPT ![r].asset_failed = @ \cup {l.sel[l.ti].id}]
                /\ UNCHANGED <<objects, uploads>>
             \/ /\ NoFault
                /\ objects' = objects \cup {object_key}
                /\ uploads' = (object_key :> (Uploads(object_key) + 1)) @@ uploads
                /\ UNCHANGED hist
          /\ pc' = [pc EXCEPT ![r] = "lg_update"]
          /\ loc' = [loc EXCEPT ![r].r2_url = <<PublicUrl, "/">> \o object_key]
    /\ UNCHANGED <<fixtures, teams, fixture_stats, pool, pools, overlap, upstream, kind,
                   last_applied>>
    /\ UNCHANGED call

\* R2StorageClient.upload_file: put_object, then the public URL.
Upload(r) ==
    /\ pc[r] = "lg_upload"
    /\ LET l == loc[r]
           object_key == TeamKey(l.sel[l.ti].id)
       IN \/ /\ Fails
             /\ hist' = [hist EXCEPT ![r].asset_failed = @ \cup {l.sel[l.ti].id}]
             /\ TeamFailed(r, l)
             /\ UNCHANGED <<objects, uploads, last_applied>>
          \/ /\ NoFault
             /\ objects' = objects \cup {object_key}
             /\ uploads' = (object_key :> (Uploads(object_key) + 1)) @@ uploads
             /\ pc' = [pc EXCEPT ![r] = "lg_update"]
             /\ loc' = [loc EXCEPT ![r].r2_url = <<PublicUrl, "/">> \o object_key]
             /\ UNCHANGED hist
    /\ UNCHANGED <<fixtures, teams, fixture_stats, pool, pools, overlap, upstream, kind,
                   last_applied>>
    /\ UNCHANGED call

\* uploaded += 1, line 164.
CountUploaded(uploaded) == uploaded + 1

\* sync_team_logos lines 161-164: the direct update of logo_url, uploaded += 1.
UpdateLogo(r) ==
    /\ pc[r] = "lg_update"
    /\ LET l == loc[r]
           team_id == l.sel[l.ti].id
           after == update_logo(teams, l.r2_url, team_id)
       IN \/ /\ StoreFails
             /\ TeamFailed(r, l)
             /\ UNCHANGED <<teams, hist>>
          \/ /\ StoreUp /\ NoFault
             /\ teams' = after
             /\ hist' = IF /\ HasStored(teams, team_id)
                           /\ ~IsOwned(StoredRow(teams, team_id).logo_url)
                           /\ IsOwned(StoredRow(after, team_id).logo_url)
                        THEN [hist EXCEPT ![r].written = @ \cup {team_id},
                                          ![r].changed = @ \cup {team_id}]
                        ELSE [hist EXCEPT ![r].written = @ \cup {team_id}]
             /\ NextTeam(r, [l EXCEPT !.uploaded = CountUploaded(l.uploaded)])
    /\ UNCHANGED <<fixtures, fixture_stats, objects, pool, pools, overlap, upstream, kind, uploads, last_applied>>
    /\ UNCHANGED call

\* sync_team_logos returned uploaded; the trigger reaches its finally clause.
ReturnLogos(r) ==
    /\ pc[r] = "lg_return"
    /\ hist' = [hist EXCEPT ![r].attempts = <<>>, ![r].batch = <<>>,
                            ![r].asset_failed = {}, ![r].fetched = <<>>,
                            ![r].changed = {}, ![r].written = {},
                            ![r].orphans = {}]
    /\ pc' = [pc EXCEPT ![r] = "disconnect"]
    /\ loc' = [loc EXCEPT ![r] = NoLoc]
    /\ UNCHANGED <<fixtures, teams, fixture_stats, objects, pool, pools, overlap, upstream, kind, faults, uploads, last_applied>>
    /\ UNCHANGED call

\* SupabaseClient.disconnect in the finally clause: closes whatever pool the
\* shared client holds now; an exception on its way out is then re-raised.
Disconnect(r) ==
    /\ pc[r] = "disconnect"
    /\ pools' = IF pool # 0 THEN [pools EXCEPT ![pool] = "closed"] ELSE pools
    /\ pc' = [pc EXCEPT ![r] = IF loc[r].raising THEN "raised" ELSE "done"]
    /\ loc' = [loc EXCEPT ![r] = NoLoc]
    /\ hist' = [hist EXCEPT ![r].mypool = 0]
    /\ UNCHANGED <<fixtures, teams, fixture_stats, objects, pool, overlap, upstream, kind, faults, uploads, last_applied>>
    /\ UNCHANGED call

\* An except clause that leaves the id loop.
StatFailed_Breaks(r, l) ==
    /\ pc' = [pc EXCEPT ![r] = "st_return"]
    /\ loc' = [loc EXCEPT ![r] = [l EXCEPT !.si = 0, !.fixture_ids = <<>>,
                                           !.stats = <<>>]]

\* except Exception of lines 197-199: log the fixture id, continue.
StatFailed(r, l) == NextStat(r, l)

\* sync_fixture_stats lines 182-191: fetch and parse the statistics of one id.
FetchStats(r) ==
    /\ pc[r] = "st_fetch"
    /\ LET l == loc[r]
       IN /\ hist' = [hist EXCEPT ![r].attempts = Append(@, l.fixture_ids[l.si])]
          /\ \/ /\ Fails
                /\ StatFailed(r, l)
             \/ /\ NoFault
                /\ \E stats_data \in StatsResponses :
                      IF parse_raises(stats_data)
                      THEN StatFailed(r, l)
                      ELSE /\ pc' = [pc EXCEPT ![r] = "st_upsert"]
                           /\ loc' = [loc EXCEPT ![r].stats = <<_parse_fixture_stats(stats_data)>>]
    /\ UNCHANGED <<fixtures, teams, fixture_stats, objects, pool, pools, overlap,
                   upstream, kind, uploads, last_applied>>
    /\ UNCHANGED call

\* sync_fixture_stats lines 194-195: upsert_fixture_stats, synced += 1.
UpsertStats(r) ==
    /\ pc[r] = "st_upsert"
    /\ LET l == loc[r]
       IN \/ /\ StoreFails
             /\ StatFailed(r, l)
             /\ UNCHANGED <<fixture_stats, hist>>
          \/ /\ StoreUp /\ NoFault
             /\ fixture_stats' = upsert_fixture_stats(fixture_stats, l.fixture_ids[l.si],
                                                      l.stats[1])
             /\ hist' = [hist EXCEPT ![r].synced_ids = @ \cup {l.fixture_ids[l.si]}]
             /\ NextStat(r, [l EXCEPT !.synced = l.synced + 1])
    /\ UNCHANGED <<fixtures, teams, objects, pool, pools, overlap, upstream, kind,
                   uploads, last_applied>>
    /\ UNCHANGED call

\* sync_fixture_stats returned synced to its caller.
ReturnStats(r) ==
    /\ pc[r] = "st_return"
    /\ hist' = [hist EXCEPT ![r].attempts = <<>>, ![r].batch = <<>>,
                            ![r].synced_ids = {}]
    /\ pc' = [pc EXCEPT ![r] = "done"]
    /\ loc' = [loc EXCEPT ![r] = NoLoc]
    /\ UNCHANGED <<fixtures, teams, fixture_stats, objects, pool, pools, overlap,
                   upstream, kind, faults, uploads, last_applied>>
    /\ UNCHANGED call

Next ==
    \E r \in Runs :
       \/ Start(r)
       \/ Connect(r)
       \/ FetchLeague(r)
       \/ UpsertFixtureStep(r)
       \/ SaveHomeTeam(r)
       \/ SaveAwayTeam(r)
       \/ ReturnFixtures(r)
       \/ SelectTeams(r)
       \/ FileExists(r)
       \/ Download(r)
       \/ Upload(r)
       \/ UpdateLogo(r)
       \/ ReturnLogos(r)
       \/ Disconnect(r)
       \/ FetchStats(r)
       \/ UpsertStats(r)
       \/ ReturnStats(r)

\* Triggers that may overlap (one event loop, coroutines interleaved at awaits).
Spec == Init /\ [][Next]_vars

\* Triggers that run one after the other.
SeqSpec == SeqInit /\ [][Next]_vars

\* The same, with the event loop resuming a coroutine whose await completed.
SeqFairSpec == SeqSpec /\ WF_vars(Next)

\* ------------------------------------------- functions called on their own
progvars == <<fixtures, teams, fixture_stats, objects, pool, pools, overlap, upstream,
              pc, kind, loc, faults, uploads, last_applied, hist>>

\* The values a statistics entry may carry: null, an int, a float, and strings
\* with and without percent signs.
StatValues ==
    {SNull, SInt(7), SFloat(125),
     SStr(<<"6", "3", "%">>), SStr(<<"6", "%", "3">>), SStr(<<"%">>),
     SStr(<<"6", "3", ".", "5", "%">>), SStr(<<"N", "/", "A">>),
     SStr(<<"1", "5", "0", "%">>)}

StatEntries == {Stat(ty, value) : ty \in {"Ball Possession", "Total Shots"}, value \in StatValues}

StatLists == UNION {[1..n -> StatEntries] : n \in 0..MaxStatEntries}

GetStatCalls ==
    {[fn |-> "get_stat", stats_list |-> stats_list, stat_type |-> stat_type,
      state |-> "called", result |-> SNull] :
        stats_list \in StatLists, stat_type \in {"Ball Possession", "Total Shots"}}

\* get_stat(stats_list, stat_type), lines 209-217: returns, or raises the
\* ValueError of int().
EvalGetStat ==
    /\ call.fn = "get_stat"
    /\ call.state = "called"
    /\ call' = IF get_stat_raises(call.stats_list, call.stat_type)
               THEN [call EXCEPT !.state = "raised"]
               ELSE [call EXCEPT !.state = "returned",
                                 !.result = get_stat(call.stats_list, call.stat_type)]
    /\ UNCHANGED progvars

\* The tables fixtures that get_fixtures is called on: rows the mapper
\* produces, one per id.
QueryRows == {fixture_obj(fd) : fd \in {F101a, F101b, F102, F201, F202, F203}}

QueryTables == {tbl \in SUBSET QueryRows : \A a, b \in tbl : a.id = b.id => a = b}

GetFixturesCalls ==
    {[fn |-> "get_fixtures", date_from |-> date_from, date_to |-> date_to,
      league_id |-> league_id, status |-> status, limit |-> limit,
      state |-> "called", result |-> <<>>] :
        date_from \in {None, "2025-10-02"}, date_to \in {None, "2025-10-04"},
        league_id \in {None, "", "39", "140"}, status \in {None, "NS", "FT"},
        limit \in {0, 1, 2, MaxQueryLimit}}

\* get_fixtures(date_from, date_to, league_id, status, limit): a SELECT, so
\* the store stays as it is.
EvalGetFixtures ==
    /\ call.fn = "get_fixtures"
    /\ call.state = "called"
    /\ \E rows \in get_fixtures(fixtures, call.date_from, call.date_to,
                                 call.league_id, call.status, call.limit) :
          call' = [call EXCEPT !.state = "returned", !.result = rows]
    /\ UNCHANGED progvars

\* Fixture entries with each nested object present, missing (no such key) or
\* null.
Presence == {"present", "missing", "null"}

\* The object d with key k added: holding v, holding null, or not at all.
With(d, k, how, v) ==
    CASE how = "present" -> (k :> v) @@ d
      [] how = "null" -> (k :> NullObj) @@ d
      [] OTHER -> d

Entry(fx, st, vn, lg, tm, hm, aw, gl) ==
    LET status == [kind |-> "dict", short |-> "FT"]
        venue == [kind |-> "dict", name |-> "Wembley"]
        fixture == With(With([kind |-> "dict", id |-> "#101", date |-> "2025-10-02",
                              referee |-> "M. Oliver"], "status", st, status),
                        "venue", vn, venue)
        league == [kind |-> "dict", id |-> "#39"]
        sides == With(With([kind |-> "dict"], "home", hm, T33), "away", aw, T34)
        goals == [kind |-> "dict", home |-> "#2", away |-> "#1"]
    IN With(With(With(With([kind |-> "dict"], "fixture", fx, fixture),
                      "league", lg, league), "teams", tm, sides), "goals", gl, goals)

Entries ==
    {Entry(fx, st, vn, lg, tm, hm, aw, gl) :
        fx \in Presence, st \in Presence, vn \in Presence, lg \in Presence,
        tm \in Presence, hm \in Presence, aw \in Presence, gl \in Presence}

MappingCalls ==
    {[fn |-> "_save_fixture", fixture_data |-> fd, state |-> "called",
      fixture_obj |-> <<>>, team_objs |-> <<>>] : fd \in Entries}

\* The mapping of _save_fixture and _save_team, lines 89-105 and 115-126:
\* the records handed to the store, or the AttributeError of .get on None.
EvalMapping ==
    /\ call.fn = "_save_fixture"
    /\ call.state = "called"
    /\ call' = IF MapRaises(call.fixture_data)
               THEN [call EXCEPT !.state = "raised"]
               ELSE [call EXCEPT !.state = "returned",
                                 !.fixture_obj = <<fixture_obj(call.fixture_data)>>,
                                 !.team_objs = TeamsOf(call.fixture_data)]
    /\ UNCHANGED progvars

\* Team rows as a richer team payload leaves them: country, league, founding
\* year and venue set, the logo upstream's or already mirrored.
RichTeam(id, nm, logo, venue) ==
    [id |-> id, name |-> nm, logo_url |-> logo, country |-> "England",
     league_id |-> "39", founded |-> "#1878", venue |-> venue]

RichRows ==
    {RichTeam("33", "Manchester United", UpstreamLogo("33"), "Old Trafford"),
     RichTeam("33", "Manchester United FC", get_public_url(TeamKey("33")), "Old Trafford"),
     RichTeam("34", "Newcastle", UpstreamLogo("34"), None),
     team_obj(T35)}

TeamTables == {tbl \in SUBSET RichRows : \A a, b \in tbl : a.id = b.id => a = b}

SaveTeamCalls ==
    {[fn |-> "_save_team", team_data |-> td, state |-> "called"] :
        td \in {T33, T33b, T34, T35, NullObj, EmptyObj}}

\* _save_team(team_data), lines 113-128, on a store that answers: nothing
\* for a missing team, else the mapped record upserted.
EvalSaveTeam ==
    /\ call.fn = "_save_team"
    /\ call.state = "called"
    /\ teams' = IF Falsy(call.team_data) THEN teams
                ELSE upsert_team(teams, team_obj(call.team_data))
    /\ call' = [call EXCEPT !.state = "returned"]
    /\ UNCHANGED <<fixtures, fixture_stats, objects, pool, pools, overlap, upstream,
                   pc, kind, loc, faults, uploads, last_applied, hist>>

CallInit ==
    /\ InitRuns /\ overlap = FALSE /\ upstream = SeqUpstream
    /\ \/ fixtures = {} /\ teams = {} /\ call \in GetStatCalls
       \/ fixtures \in QueryTables /\ teams = {} /\ call \in GetFixturesCalls
       \/ fixtures = {} /\ teams = {} /\ call \in MappingCalls
       \/ fixtures = {} /\ teams \in TeamTables /\ call \in SaveTeamCalls

CallNext ==
    \/ EvalGetStat
    \/ EvalGetFixtures
    \/ EvalMapping
    \/ EvalSaveTeam

\* One call of a function of the module, on arguments drawn from the sets
\* above.
CallSpec == CallInit /\ [][CallNext]_vars

\* ---------------------------------------------- repeated backfill runs
\* sync_team_logos called again and again on a store whose teams all carry
\* upstream logo URLs, with the pool open and no fixture sync in between.
\* The upstream logo of a team of BrokenTeams cannot be downloaded, now or
\* later; other failures are injected within the budget MaxFaults.
BrokenTeams == {"33"}

BackfillLimits == {1, 2}

BackfillTeams == {team_obj(T33), team_obj(T34), team_obj(T35)}

BackfillInit ==
    /\ fixtures = {}
    /\ teams = BackfillTeams
    /\ fixture_stats = {}
    /\ objects = {}
    /\ pool = 1
    /\ pools = <<"open">>
    /\ overlap = FALSE
    /\ upstream = SeqUpstream
    /\ pc = [r \in Runs |-> IF r = 1 THEN "lg_select" ELSE "idle"]
    /\ kind = [r \in Runs |-> IF r = 1 THEN "backfill" ELSE "none"]
    /\ \E limit \in BackfillLimits :
          loc = [r \in Runs |-> IF r = 1 THEN [NoLoc EXCEPT !.limit = limit] ELSE NoLoc]
    /\ faults = 0
    /\ uploads = [k \in {} |-> 0]
    /\ last_applied = [k \in {} |-> 0]
    /\ hist = [r \in Runs |-> NoHist]
    /\ call = NoCall

\* R2StorageClient.upload_from_url lines 100-108 for a logo that upstream
\* does or does not serve.
BackfillDownload(r) ==
    /\ pc[r] = "lg_download"
    /\ IF loc[r].sel[loc[r].ti].id \in BrokenTeams
       THEN /\ hist' = [hist EXCEPT ![r].asset_failed = @ \cup {loc[r].sel[loc[r].ti].id}]
            /\ TeamFailed(r, loc[r])
       ELSE /\ pc' = [pc EXCEPT ![r] = "lg_upload"]
            /\ UNCHANGED <<loc, hist>>
    /\ UNCHANGED <<fixtures, teams, fixture_stats, objects, pool, pools, overlap,
                   upstream, kind, faults, uploads, last_applied>>
    /\ UNCHANGED call

\* sync_team_logos returned or raised; its caller calls it again.
BackfillAgain(r) ==
    /\ pc[r] = "disconnect"
    /\ kind[r] = "backfill"
    /\ pc' = [pc EXCEPT ![r] = "lg_select"]
    /\ \E limit \in BackfillLimits :
          loc' = [loc EXCEPT ![r] = [NoLoc EXCEPT !.limit = limit]]
    /\ hist' = [hist EXCEPT ![r].orphans =
                    {row.id : row \in {x \in teams : /\ HasUpstreamPrefix(x.logo_url)
                                                     /\ TeamKey(x.id) \in objects}}]
    /\ UNCHANGED <<fixtures, teams, fixture_stats, objects, pool, pools, overlap,
                   upstream, kind, faults, uploads, last_applied>>
    /\ UNCHANGED call

BackfillNext ==
    \E r \in Runs :
       \/ SelectTeams(r)
       \/ FileExists(r)
       \/ BackfillDownload(r)
       \/ Upload(r)
       \/ UpdateLogo(r)
       \/ ReturnLogos(r)
       \/ BackfillAgain(r)

\* Every call returns and the next one is made: the event loop resumes a
\* coroutine whose await completed.
BackfillSpec == BackfillInit /\ [][BackfillNext]_vars /\ WF_vars(BackfillNext)

\* =================================================================== claims
Row(tbl, id) == CHOOSE row \in tbl : row.id = id
HasRow(tbl, id) == \E row \in tbl : row.id = id

WellFormed(entries) == {k \in DOMAIN entries : ~MapRaises(entries[k])}

\* The entry a run of sync_fixtures is saving.
Current(r) == loc[r].resp[loc[r].fi]

\* C1: when sync_fixtures returns and the only failures of the run were
\* entries whose mapping raises, every other entry it received is in the
\* store and the returned count is the number of those entries.
C1_FailureIsolatedPerFixture ==
    \A r \in Runs :
        (pc[r] = "fx_return" /\ faults = 0) =>
            /\ \A k \in WellFormed(hist[r].fetched) :
                  HasRow(fixtures, fixture_obj(hist[r].fetched[k]).id)
            /\ loc[r].total_synced = Cardinality(WellFormed(hist[r].fetched))

\* C2: a team row whose logo_url is an owned-storage URL never goes back to
\* an upstream URL in a later step.
C2_LogoNeverReverts ==
    [][\A row \in teams :
          IsOwned(row.logo_url) =>
              \A row2 \in teams' : row2.id = row.id => ~HasUpstreamPrefix(row2.logo_url)]_vars

\* C3: after a successful upsert_fixture(P) the stored row with id P.id
\* equals P in every field.
C3_UpsertStoresWholePayload ==
    [][\A r \in Runs :
          (pc[r] = "fx_upsert" /\ pc'[r] = "fx_home") =>
              fixture_obj(Current(r)) \in fixtures']_vars

\* C5: over triggers that run one after the other, put_object completes at
\* most once per team key.
C5_AtMostOneUploadPerTeam ==
    \A key \in DOMAIN uploads : uploads[key] <= 1

\* C7: after connect succeeded, no exception leaves a sync operation.
C7_NoErrorPropagates ==
    \A r \in Runs : hist[r].err \in {"none", "connect"}

\* C8: a trigger that is about to issue a store call finds the pool of the
\* shared client open.
StoreCallPcs == {"fx_upsert", "fx_home", "fx_away", "lg_select", "lg_update"}

C8_PoolUsableWhileRunning ==
    \A r \in Runs :
        (kind[r] \in {"daily", "live", "main"} /\ pc[r] \in StoreCallPcs) => StoreUp


\* C4: upserting a canonical fixture record a second time changes nothing:
\* from every reachable table, the table after two upserts of a record is the
\* table after one, with exactly one row of that id; and an upsert_fixture
\* call that repeats the last record upserted for its id leaves the table as
\* it was.
CanonicalFixtures == {fixture_obj(fd) : fd \in {F101a, F101b, F102, F201}}

C4_UpsertFixtureIdempotent ==
    /\ \A P \in CanonicalFixtures :
          LET once == upsert_fixture(fixtures, P)
          IN /\ upsert_fixture(once, P) = once
             /\ Cardinality({row \in once : row.id = P.id}) = 1
    /\ \A r \in Runs :
          (pc[r] = "fx_home" /\ hist[r].reapplied) => fixtures = hist[r].before[1]

C4_Witness ==
    \E r \in Runs :
        /\ pc[r] = "fx_home"
        /\ hist[r].reapplied
        /\ fixture_obj(Current(r)).home_score # fixture_obj(Current(r)).away_score
        /\ Cardinality({row \in fixtures : row.id = fixture_obj(Current(r)).id}) = 1

IsPrefix(a, b) == Len(a) <= Len(b) /\ \A i \in DOMAIN a : a[i] = b[i]

FixturesPcs == {"fx_fetch", "fx_upsert", "fx_home", "fx_away"}
LogosPcs == {"lg_exists", "lg_download", "lg_upload", "lg_update"}
StatsPcs == {"st_fetch", "st_upsert"}

C6_BatchOrder ==
    \A r \in Runs :
        /\ IsPrefix(hist[r].attempts, hist[r].batch)
        /\ pc[r] \in {"fx_return", "lg_return", "st_return"} =>
              hist[r].attempts = hist[r].batch
        /\ pc[r] = "fx_return" => loc[r].total_synced \in 0..Len(hist[r].fetched)
        /\ pc[r] = "lg_return" => loc[r].uploaded \in 0..Len(hist[r].batch)
        /\ pc[r] = "st_return" => loc[r].synced \in 0..Len(hist[r].batch)

\* A run inside an operation stays inside it or reaches its return.
C6_LeavesByReturn ==
    \A r \in Runs :
        /\ pc[r] \in FixturesPcs => pc'[r] \in FixturesPcs \cup {"fx_return"}
        /\ pc[r] \in LogosPcs => pc'[r] \in LogosPcs \cup {"lg_return"}
        /\ pc[r] \in StatsPcs => pc'[r] \in StatsPcs \cup {"st_return"}

\* C6: every sync operation tries the items of its batch in batch order, each
\* once, whatever fails: the items tried so far are always a prefix of the
\* batch and are the whole batch when the operation returns its count, which
\* lies between 0 and the size of the batch (of the fetched entries, for
\* sync_fixtures); an operation working on its batch leaves it only by
\* returning, and eventually no operation is still working on its batch.
C6_EveryItemOnceAndReturns ==
    /\ []C6_BatchOrder
    /\ [][C6_LeavesByReturn]_vars
    /\ <>[](\A r \in Runs : pc[r] \notin FixturesPcs \cup LogosPcs \cup StatsPcs)

C6_Witness ==
    \E r \in Runs :
        /\ pc[r] = "fx_return"
        /\ Len(hist[r].attempts) >= 2
        /\ hist[r].attempts = hist[r].batch
        /\ faults > 0
        /\ loc[r].total_synced > 0
        /\ loc[r].total_synced < Len(hist[r].fetched)

\* C9 as stated: the value sync_fixtures returns is the number of
\* upsert_fixture calls that succeeded in the run.
C9_ReturnsUpsertCount ==
    \A r \in Runs : pc[r] = "fx_return" => loc[r].total_synced = hist[r].upserted

\* C9 amended: the value sync_fixtures returns is the number of _save_fixture
\* calls that returned (fixture upsert and both team upserts done), which is
\* at most the number of upsert_fixture calls that succeeded.
C9_ReturnsSavedCount ==
    \A r \in Runs :
        pc[r] = "fx_return" =>
            /\ loc[r].total_synced = hist[r].saved
            /\ loc[r].total_synced <= hist[r].upserted

C9_Witness ==
    \E r \in Runs :
        /\ pc[r] = "fx_return"
        /\ loc[r].total_synced >= 2
        /\ loc[r].total_synced < hist[r].upserted

\* C10: a team whose download or upload raised keeps the logo_url it was
\* selected with (an upstream URL), is not counted, and the teams selected
\* after it are still tried.
C10_AssetFailureIsolated ==
    \A r \in Runs :
        /\ \A i \in DOMAIN loc[r].sel :
              loc[r].sel[i].id \in hist[r].asset_failed =>
                  /\ HasRow(teams, loc[r].sel[i].id)
                  /\ Row(teams, loc[r].sel[i].id).logo_url = loc[r].sel[i].logo_url
                  /\ HasUpstreamPrefix(Row(teams, loc[r].sel[i].id).logo_url)
        /\ loc[r].uploaded + Cardinality(hist[r].asset_failed) <= Len(hist[r].attempts)
        /\ pc[r] = "lg_return" => hist[r].attempts = hist[r].batch

C10_Witness ==
    \E r \in Runs :
        /\ pc[r] = "lg_return"
        /\ \E i, j \in DOMAIN loc[r].sel :
              /\ i < j
              /\ loc[r].sel[i].id \in hist[r].asset_failed
              /\ IsOwned(Row(teams, loc[r].sel[j].id).logo_url)
        /\ loc[r].uploaded >= 1

\* C11: there is no rollback of a partly saved fixture: a fixture row written
\* by upsert_fixture stays in the store, as written, when an upsert_team of
\* the same _save_fixture call fails, up to the return of sync_fixtures.
C11_NoPartialRollback ==
    \A r \in Runs : \A row \in hist[r].unsaved : row \in fixtures

C11_Witness ==
    \E r \in Runs :
        /\ pc[r] = "fx_return"
        /\ hist[r].unsaved # {}
        /\ \E row \in hist[r].unsaved : row.id = "102" /\ ~HasRow(teams, row.away_team_id)

\* C12: upsert_fixture_stats(fixture_id, S) on any table the program
\* reaches leaves exactly one row of that fixture id, and every statistic of
\* that row is the one of S.
ParsedStats == {_parse_fixture_stats(stats_data) : stats_data \in StatsResponses}

C12_StatsUpsertReplacesAll ==
    \A S \in ParsedStats : \A k \in DOMAIN StatsIds :
        LET after == upsert_fixture_stats(fixture_stats, StatsIds[k], S)
        IN /\ Cardinality({row \in after : row.fixture_id = StatsIds[k]}) = 1
           /\ StatsRow(StatsIds[k], S) \in after

\* C13: overlapping sync_team_logos runs may both find the object of a team
\* missing and both upload it, and still agree: the URL a run is about to
\* write for a team, and every owned URL in the table, is the public base URL
\* joined with teams/{id}.png; every completed upload is the one object under
\* the key of a stored team; and once the runs that both uploaded a team's
\* logo have left sync_team_logos without an injected failure, the team's row
\* carries that URL.
OwnedUrl(team_id) == <<PublicUrl, "/", "teams/", team_id, ".png">>

AfterLogos == {"lg_return", "disconnect", "done", "raised"}

C13_RacingLogosConverge ==
    /\ \A row \in teams : IsOwned(row.logo_url) => row.logo_url = OwnedUrl(row.id)
    /\ \A r \in Runs :
          pc[r] = "lg_update" => loc[r].r2_url = OwnedUrl(loc[r].sel[loc[r].ti].id)
    /\ \A key \in DOMAIN uploads :
          /\ key \in objects
          /\ Cardinality({row \in teams : TeamKey(row.id) = key}) = 1
    /\ \A row \in teams :
          (/\ Uploads(TeamKey(row.id)) = Cardinality(Runs)
           /\ faults = 0
           /\ \A r \in Runs : pc[r] \in AfterLogos) => row.logo_url = OwnedUrl(row.id)

C13_Witness ==
    /\ faults = 0
    /\ \A r \in Runs : pc[r] = "done"
    /\ \E row \in teams :
          /\ Uploads(TeamKey(row.id)) = 2
          /\ row.logo_url = OwnedUrl(row.id)
    /\ Len(pools) = 2

\* C14: two overlapping sync_fixtures runs that received the same entries
\* converge: when both have returned, whatever the interleaving of their
\* upserts, the tables fixtures and teams are the ones a single run saving
\* those entries into the empty store leaves, with one row per id.
RECURSIVE FixturesAfter(_, _)
FixturesAfter(tbl, entries) ==
    IF entries = <<>> THEN tbl
    ELSE FixturesAfter(upsert_fixture(tbl, fixture_obj(Head(entries))), Tail(entries))

RECURSIVE TeamsAfter(_, _)
TeamsAfter(tbl, team_objs) ==
    IF team_objs = <<>> THEN tbl
    ELSE TeamsAfter(upsert_team(tbl, Head(team_objs)), Tail(team_objs))

RECURSIVE AllTeamsOf(_)
AllTeamsOf(entries) ==
    IF entries = <<>> THEN <<>> ELSE TeamsOf(Head(entries)) \o AllTeamsOf(Tail(entries))

OnePerId(tbl) == \A a, b \in tbl : a.id = b.id => a = b

C14_OverlappingRunsConverge ==
    (/\ \A r \in Runs : pc[r] = "fx_return"
     /\ \A r, q \in Runs : hist[r].fetched = hist[q].fetched
     /\ \A r \in Runs : WellFormed(hist[r].fetched) = DOMAIN hist[r].fetched
     /\ faults = 0)
    => /\ fixtures = FixturesAfter({}, hist[1].fetched)
       /\ teams = TeamsAfter({}, AllTeamsOf(hist[1].fetched))
       /\ OnePerId(fixtures) /\ OnePerId(teams)

C14_Witness ==
    /\ \A r \in Runs : pc[r] = "fx_return" /\ hist[r].upserted = Len(hist[r].fetched)
    /\ hist[1].fetched = hist[2].fetched
    /\ Len(hist[1].fetched) > 0
    /\ faults = 0
    /\ \E row \in fixtures : row.status = "FT"
    /\ Cardinality(teams) = 2

\* C15: end to end, for the first trigger on an empty store and without any
\* failure.  When sync_fixtures received 2 fixtures naming 3 distinct teams,
\* it leaves exactly 2 fixture rows and 3 team rows, every team row with an
\* upstream logo; the sync_team_logos that follows with a limit of at least 3
\* returns 3 and leaves every one of the 3 team rows with its owned URL.
TeamIdsOf(entries) ==
    {AllTeamsOf(entries)[k].id : k \in DOMAIN AllTeamsOf(entries)}

TwoFixturesThreeTeams(r) ==
    /\ \A q \in Runs \ {r} : pc[q] = "idle"
    /\ faults = 0
    /\ Len(hist[r].fetched) = 2
    /\ WellFormed(hist[r].fetched) = {1, 2}
    /\ fixture_obj(hist[r].fetched[1]).id # fixture_obj(hist[r].fetched[2]).id
    /\ Cardinality(TeamIdsOf(hist[r].fetched)) = 3

C15_EndToEnd ==
    \A r \in Runs :
        /\ (pc[r] = "fx_return" /\ TwoFixturesThreeTeams(r)) =>
              /\ Cardinality(fixtures) = 2
              /\ loc[r].total_synced = 2
              /\ {row.id : row \in teams} = TeamIdsOf(hist[r].fetched)
              /\ Cardinality(teams) = 3
              /\ \A row \in teams : HasUpstreamPrefix(row.logo_url)
        /\ (pc[r] = "lg_return" /\ TwoFixturesThreeTeams(r) /\ loc[r].limit >= 3) =>
              /\ loc[r].uploaded = 3
              /\ Cardinality(fixtures) = 2
              /\ Cardinality(teams) = 3
              /\ \A row \in teams : row.logo_url = OwnedUrl(row.id)

C15_Witness ==
    \E r \in Runs :
        /\ pc[r] = "lg_return"
        /\ TwoFixturesThreeTeams(r)
        /\ loc[r].limit >= 3
        /\ loc[r].uploaded = 3
        /\ Cardinality(objects) = 3

\* C16: get_stat gives the value of the first entry of the requested type,
\* a string that ends in a percent sign turned into the integer before the
\* sign, any other value as it is; with no entry of that type it gives the
\* null marker; and it never raises.
EndsInPercent(value) ==
    value.t = "str" /\ value.s # <<>> /\ value.s[Len(value.s)] = "%"

BeforeSign(value) == SubSeq(value.s, 1, Len(value.s) - 1)

Normalized(value) ==
    IF EndsInPercent(value) /\ IntParses(BeforeSign(value))
    THEN SInt(IntOf(BeforeSign(value)))
    ELSE value

C16_GetStatNormalizes ==
    (call.fn = "get_stat" /\ call.state # "called") =>
        /\ call.state = "returned"
        /\ call.result =
              IF Matches(call.stats_list, call.stat_type) = {} THEN SNull
              ELSE Normalized(call.stats_list[FirstMatch(call.stats_list, call.stat_type)].value)

\* C17: get_fixtures returns stored fixtures only, each once and each
\* satisfying every filter that was supplied (None and the empty string
\* supply none), in ascending order of match date (rows without one last);
\* it returns all of them when they are at most `limit`, else `limit` of them
\* with none of the left-out ones due before a returned one; and the call
\* leaves the store as it was.
Passes(row) ==
    /\ call.date_from \notin {None, ""} =>
          row.match_date # None /\ DateOrd(row.match_date) >= DateOrd(call.date_from)
    /\ call.date_to \notin {None, ""} =>
          row.match_date # None /\ DateOrd(row.match_date) <= DateOrd(call.date_to)
    /\ call.league_id \notin {None, ""} => row.league_id = call.league_id
    /\ call.status \notin {None, ""} => row.status = call.status

DueBefore(a, b) ==
    /\ a.match_date # None
    /\ b.match_date = None \/ DateOrd(a.match_date) < DateOrd(b.match_date)

C17_ResultIsFilteredOrderedCapped ==
    (call.fn = "get_fixtures" /\ call.state = "returned") =>
        LET res == call.result
            passing == {row \in fixtures : Passes(row)}
        IN /\ \A i \in DOMAIN res : res[i] \in passing
           /\ \A i, j \in DOMAIN res : i < j => res[i] # res[j] /\ ~DueBefore(res[j], res[i])
           /\ Len(res) <= call.limit
           /\ Len(res) < call.limit => {res[i] : i \in DOMAIN res} = passing
           /\ Len(res) = call.limit => Cardinality(passing) >= call.limit
           /\ \A row \in passing :
                 (\A i \in DOMAIN res : res[i] # row) =>
                     \A i \in DOMAIN res : ~DueBefore(row, res[i])

C17_GetFixtures ==
    /\ []C17_ResultIsFilteredOrderedCapped
    /\ [][call.fn = "get_fixtures" =>
             UNCHANGED <<fixtures, teams, fixture_stats, objects>>]_vars

C17_Witness ==
    /\ call.fn = "get_fixtures" /\ call.state = "returned"
    /\ call.league_id = "140" /\ call.status = "NS" /\ call.date_to = None
    /\ call.limit = 2
    /\ Len(call.result) = 2
    /\ call.result[2].match_date = None
    /\ Cardinality(fixtures) >= 4

\* C18: the mapping of _save_fixture and _save_team never raises, and a
\* nested object that is not there (the key is missing, or holds null) leaves
\* the fields taken from it null: the fixture object the id, match date,
\* status, venue and referee; the league the league id; the teams object, or
\* one team, the team ids; the goals the scores; the status object the
\* status; the venue object the venue; and no record is made for a team that
\* is not there.
Has(d, k) == k \in DOMAIN d /\ d[k].kind = "dict"

C18_MappingToleratesMissingObjects ==
    (call.fn = "_save_fixture" /\ call.state # "called") =>
        /\ call.state = "returned"
        /\ LET fd == call.fixture_data
               rec == call.fixture_obj[1]
           IN /\ ~Has(fd, "fixture") =>
                    /\ rec.id = None /\ rec.match_date = None /\ rec.status = None
                    /\ rec.venue = None /\ rec.referee_id = None
              /\ ~Has(fd, "league") => rec.league_id = None
              /\ ~Has(fd, "goals") => rec.home_score = None /\ rec.away_score = None
              /\ ~Has(fd, "teams") =>
                    /\ rec.home_team_id = None /\ rec.away_team_id = None
                    /\ call.team_objs = <<>>
              /\ (Has(fd, "teams") /\ ~Has(fd.teams, "home")) => rec.home_team_id = None
              /\ (Has(fd, "teams") /\ ~Has(fd.teams, "away")) => rec.away_team_id = None
              /\ (Has(fd, "fixture") /\ ~Has(fd.fixture, "status")) => rec.status = None
              /\ (Has(fd, "fixture") /\ ~Has(fd.fixture, "venue")) => rec.venue = None

\* C19: in daily_fixture_sync, live_score_sync and main a failure of connect
\* ends the run: the exception leaves the trigger, the step in which connect
\* fails writes nothing to the store or to the bucket, and the run takes no
\* further step, so it starts no sync operation.
C19_FailedConnectStep ==
    \A r \in Runs :
        (pc[r] = "connect" /\ faults' = faults + 1) =>
            /\ pc'[r] = "raised"
            /\ hist'[r].err = "connect"
            /\ UNCHANGED <<fixtures, teams, fixture_stats, objects, uploads, pool, pools>>

C19_RaisedRunIsOver ==
    \A r \in Runs :
        hist[r].err = "connect" =>
            /\ pc[r] = "raised"
            /\ loc[r] = NoLoc
            /\ hist[r].mypool = 0

C19_ConnectFailureIsFatal ==
    /\ []C19_RaisedRunIsOver
    /\ [][C19_FailedConnectStep]_vars
    /\ [][\A r \in Runs : pc[r] = "raised" => pc'[r] = "raised"]_vars

C19_Witness ==
    /\ \A r \in Runs : pc[r] = "raised" /\ hist[r].err = "connect"
    /\ kind[1] = "daily" /\ kind[2] = "main"
    /\ fixtures = {} /\ teams = {} /\ objects = {}
    /\ pool = 0

\* What holds of a run of sync_team_logos whatever else runs: it selects at
\* most `limit` teams, each once and each with an upstream-prefixed logo_url
\* at selection, tries them in the order selected and no other team, and its
\* count lies between 0 and `limit`.
C20_SelectionBounded(r) ==
    /\ Len(loc[r].sel) <= loc[r].limit
    /\ \A i \in DOMAIN loc[r].sel : HasUpstreamPrefix(loc[r].sel[i].logo_url)
    /\ \A i, j \in DOMAIN loc[r].sel : loc[r].sel[i].id = loc[r].sel[j].id => i = j
    /\ pc[r] \in LogosPcs \cup {"lg_return"} =>
          /\ Len(hist[r].attempts) <= loc[r].limit
          /\ \A k \in DOMAIN hist[r].attempts : hist[r].attempts[k] = loc[r].sel[k].id
          /\ loc[r].uploaded \in 0..loc[r].limit

\* C20 as stated: ... and the count is the number of teams whose logo_url the
\* run changed to an owned URL.
C20_LogoPassBounded ==
    \A r \in Runs :
        /\ C20_SelectionBounded(r)
        /\ pc[r] \in LogosPcs \cup {"lg_return"} =>
              loc[r].uploaded = Cardinality(hist[r].changed)

\* C20 amended: ... and the count is the number of selected teams whose
\* UPDATE of logo_url to the owned URL succeeded in the run, each of which
\* carries an owned URL right after it; the teams whose logo_url the run
\* changed are among them, and are all of them when no other trigger
\* overlaps the run.
C20_LogoPassCountsWrites ==
    \A r \in Runs :
        /\ C20_SelectionBounded(r)
        /\ pc[r] \in LogosPcs \cup {"lg_return"} =>
              /\ loc[r].uploaded = Cardinality(hist[r].written)
              /\ hist[r].changed \subseteq hist[r].written
              /\ \A team_id \in hist[r].written :
                    \E i \in DOMAIN loc[r].sel : loc[r].sel[i].id = team_id
              /\ (\A q \in Runs \ {r} : pc[q] = "idle") =>
                    hist[r].changed = hist[r].written

C20_Witness ==
    \E r \in Runs :
        /\ pc[r] = "lg_return"
        /\ faults = 0
        /\ Len(loc[r].sel) = loc[r].limit
        /\ loc[r].uploaded = loc[r].limit
        /\ Cardinality({row \in teams : HasUpstreamPrefix(row.logo_url)}) >= 1
        /\ Cardinality(hist[r].written) = 1
        /\ hist[r].changed = {}

\* C21: the step in which sync_team_logos updates a team changes nothing but
\* the logo_url of that team's row: every other column of the row keeps the
\* value it has in the store at that moment (also a name that another run
\* replaced after the selection), every other team row stays, and the tables
\* fixtures and fixture_stats and the bucket stay.
LogoUpdated(r) == pc[r] = "lg_update" /\ loc'[r].uploaded = loc[r].uploaded + 1

C21_UpdateTouchesOnlyLogo ==
    [][\A r \in Runs :
          LogoUpdated(r) =>
              LET team_id == loc[r].sel[loc[r].ti].id
              IN /\ fixtures' = fixtures
                 /\ fixture_stats' = fixture_stats
                 /\ objects' = objects
                 /\ {row \in teams' : row.id # team_id} = {row \in teams : row.id # team_id}
                 /\ \A row \in teams :
                       row.id = team_id =>
                           {x \in teams' : x.id = team_id}
                               = {[row EXCEPT !.logo_url = OwnedUrl(team_id)]}]_vars

\* A run has updated the logo of a team that another run renamed after the
\* selection.
C21_Witness ==
    \E r \in Runs : \E i \in DOMAIN loc[r].sel :
        /\ pc[r] = "lg_return"
        /\ loc[r].sel[i].id \in hist[r].written
        /\ HasRow(teams, loc[r].sel[i].id)
        /\ Row(teams, loc[r].sel[i].id).name # loc[r].sel[i].name
        /\ Row(teams, loc[r].sel[i].id).logo_url = OwnedUrl(loc[r].sel[i].id)

\* C22: sync_fixture_stats returns the number of ids whose statistics were
\* fetched and upserted: when it returns every id of the batch was tried, in
\* order, and synced counts exactly the ids whose upsert succeeded.  A failed
\* fetch or upsert writes nothing and counts nothing; a successful upsert
\* counts one and leaves a row of the id with the parsed values, which for a
\* response without statistics is a row of unavailable values.
StatsPositions == {"st_fetch", "st_upsert", "st_return"}

NoStats == _parse_fixture_stats(<<>>)

C22_SyncedCountsUpserts ==
    \A r \in Runs :
        pc[r] \in StatsPositions =>
            /\ loc[r].synced = Cardinality(hist[r].synced_ids)
            /\ hist[r].synced_ids \subseteq {hist[r].attempts[k] : k \in DOMAIN hist[r].attempts}
            /\ pc[r] = "st_return" => hist[r].attempts = hist[r].batch

C22_FetchStep ==
    \A r \in Runs :
        (pc[r] = "st_fetch" /\ hist'[r].attempts # hist[r].attempts) =>
            /\ loc'[r].synced = loc[r].synced
            /\ fixture_stats' = fixture_stats
            /\ hist'[r].synced_ids = hist[r].synced_ids

C22_UpsertStep ==
    \A r \in Runs :
        (pc[r] = "st_upsert" /\ pc'[r] # "st_upsert") =>
            LET id == loc[r].fixture_ids[loc[r].si]
                S == loc[r].stats[1]
            IN \/ /\ loc'[r].synced = loc[r].synced
                  /\ fixture_stats' = fixture_stats
                  /\ hist'[r].synced_ids = hist[r].synced_ids
               \/ /\ loc'[r].synced = loc[r].synced + 1
                  /\ hist'[r].synced_ids = hist[r].synced_ids \cup {id}
                  /\ \E row \in fixture_stats' :
                        /\ row.fixture_id = id
                        /\ row.home_possession = S.home_possession
                        /\ row.away_possession = S.away_possession
                        /\ row.home_shots = S.home_shots
                        /\ row.away_shots = S.away_shots
                  /\ (\A row \in fixture_stats : row.fixture_id # id)
                        => StatsRow(id, S) \in fixture_stats'

C22_StatsCount ==
    /\ []C22_SyncedCountsUpserts
    /\ [][C22_FetchStep]_vars
    /\ [][C22_UpsertStep]_vars

\* sync_fixture_stats is about to return 1 for two ids: the fetch of the first
\* failed, the second answered no statistics and was upserted as a row of
\* unavailable values.
C22_Witness ==
    \E r \in Runs :
        /\ pc[r] = "st_return"
        /\ loc[r].synced = 1
        /\ hist[r].synced_ids = {StatsIds[2]}
        /\ StatsRow(StatsIds[2], NoStats) \in fixture_stats
        /\ \A row \in fixture_stats : row.fixture_id # StatsIds[1]

\* C23: the possession value that sync_fixture_stats takes from a statistics
\* payload and hands to upsert_fixture_stats (the result of get_stat for
\* "Ball Possession") is unavailable or an integer from 0 to 100.
IsPercentage(value) == value = SNull \/ (value.t = "int" /\ value.i \in 0..100)

C23_PossessionInRange ==
    (call.fn = "get_stat" /\ call.stat_type = "Ball Possession" /\ call.state = "returned")
        => IsPercentage(call.result)

\* C24: under repeated sync_team_logos runs with a limit of at least 1, every
\* team with an upstream logo URL whose download, upload and update succeed
\* eventually has an owned logo URL, whatever happens to the other teams.
C24_NoStarvation ==
    <>(\A row \in teams : row.id \notin BrokenTeams => IsOwned(row.logo_url))

C26_OwnedLogoHasObject ==
    \A row \in teams :
        IsOwned(row.logo_url) =>
            /\ TeamKey(row.id) \in objects
            /\ Uploads(TeamKey(row.id)) >= 1

\* A team has an owned logo URL while both runs are under way, one of them
\* in its logo pass.
C26_Witness ==
    /\ \E row \in teams : IsOwned(row.logo_url) /\ TeamKey(row.id) \in objects
    /\ \A r \in Runs : pc[r] \notin Finished \cup {"idle"}
    /\ \E r \in Runs : pc[r] \in {"lg_exists", "lg_download", "lg_upload", "lg_update"}

\* C27: a logo step whose upload succeeded and whose UPDATE failed leaves
\* the team with its upstream URL and uncounted, and the next sync_team_logos
\* run repairs it: a team that has its object in the bucket and an upstream
\* logo_url when sync_team_logos is called again has an owned logo_url when
\* that call returns without a failed step, and the call uploads nothing
\* for it.
C27_FailedUpdateStep ==
    \A r \in Runs :
        (pc[r] = "lg_update" /\ faults' = faults + 1) =>
            /\ teams' = teams
            /\ objects' = objects
            /\ loc'[r].uploaded = loc[r].uploaded

C27_NoUploadForOrphan ==
    \A r \in Runs :
        (pc[r] = "lg_upload" /\ uploads' # uploads) =>
            loc[r].sel[loc[r].ti].id \notin hist[r].orphans

C27_OrphansRepaired ==
    \A r \in Runs :
        (/\ pc[r] = "lg_return"
         /\ \A k \in DOMAIN hist[r].batch : hist[r].batch[k] \in hist[r].written) =>
            \A row \in teams : row.id \in hist[r].orphans => IsOwned(row.logo_url)

C27_NextRunRepairs ==
    /\ []C27_OrphansRepaired
    /\ [][C27_FailedUpdateStep]_vars
    /\ [][C27_NoUploadForOrphan]_vars

\* C28: every pool that connect created is closed again: once every trigger
\* that started has returned or raised, overlapping ones included, no pool
\* is open.
C28_NoPoolLeftOpen ==
    (\A r \in Runs : pc[r] \in Finished \cup {"idle"}) =>
        \A k \in DOMAIN pools : pools[k] = "closed"

====
